---- MODULE Spec2Model ----
(***************************************************************************)
(* Model of bot/orders.py (OrderManager) and the part of bot/client.py it  *)
(* calls.  Quantities and prices are exact numbers counted in ticks: the   *)
(* code computes with binary floating point, and the specification states  *)
(* its quantity properties "within floating-point tolerance"; the input    *)
(* sets below are chosen so that every division the code performs on them  *)
(* is exact (TrueDiv has no value otherwise).                              *)
(*                                                                         *)
(* A dict created by the code is an object on a heap (twap_heap,           *)
(* grid_heap); a registry (twap_orders, grid_orders) maps an identifier to *)
(* the index of the object it currently holds, so that an overwritten      *)
(* entry is still reachable by the thread that holds a reference to it.    *)
(***************************************************************************)
EXTENDS Integers, Sequences, FiniteSets, TLC

\* ------------------------------------------------------------------ bounds
MaxStarts == 2
MaxTime == 1
MaxGrids == 2
\* calls of the primitive operations in one behaviour
MaxCalls == 2

\* ------------------------------------------------------------------ inputs
Symbols == {"BTCUSDT", "ETHUSDT"}
Sides == {"BUY"}
TotalQuantities == {0, 6}
DurationMinutes == {-1, 1}
IntervalSeconds == {-30, 0, 30, 90}
\* what client.futures_create_order does: returns an order with this status,
\* or raises
Responses == {"NEW", "BinanceOrderException", "Exception"}

\* start_grid_strategy's inputs; prices in ticks
GridSymbols == {"ETHUSDT"}
GridPrices == {18, 22}
GridLevels == {0, 1, 2, 3}
LevelQuantities == {0, 1}
\* what client.get_symbol_ticker does: None when it raises, else the price
Tickers == {<<>>, <<20>>}

\* the primitive operations' inputs (main.py lines 41-43, 53-56, 71-75, 87-92)
OrderSides == {"BUY", "SELL"}
OrderQuantities == {1}
LimitPrices == {20}
StopPrices == {18}
StopLimitPrices == {17}

VARIABLES
    now,          \* int(time.time())
    exchange,     \* the requests client.futures_create_order received
    twap_orders,  \* self.twap_orders: identifier -> index of its dict in twap_heap
    twap_heap,    \* the dicts start_twap_order created, in creation order
    threads,      \* the threads start_twap_order started, in creation order
    cancelled,    \* history: the TWAP dicts whose flag was cleared from outside
    late_results, \* history: per TWAP dict, the results appended after that
    grid_orders,  \* self.grid_orders: identifier -> index of its dict in grid_heap
    grid_heap,    \* the dicts start_grid_strategy created, in creation order
    main,         \* the calling thread's position inside start_grid_strategy
    price_reads,  \* history: per grid dict, the price line 270 read for it
    ticker_reads, \* history: per grid dict, what the exchange answered that read
    active_orders,\* self.active_orders: order id -> what place_oco_order stored
    calls         \* history: the calls of the primitive operations, with results

twapVars == <<twap_orders, twap_heap, threads, cancelled, late_results>>

gridVars == <<grid_orders, grid_heap, main, price_reads, ticker_reads>>

orderVars == <<active_orders, calls>>

vars == <<now, exchange, twapVars, gridVars, orderVars>>

\* ------------------------------------------------------------- python values
\* Optional[x]: None is the empty sequence, a value x is <<x>>
None == <<>>

Some(x) == <<x>>

\* str(order['orderId']): the exchange names each accepted request differently;
\* the seq-th request of the caller `origin` gets the name in row origin
OrderIdStr(origin, seq) ==
    << <<"101", "102", "103", "104", "105", "106">>,
       <<"201", "202", "203", "204", "205", "206">>,
       <<"301", "302", "303", "304", "305", "306">>,
       <<"401", "402", "403", "404", "405", "406">> >>[origin][seq]

\* str(e) of the exception the exchange call raised: text, the same for all
ErrorText(response) == "error"

\* a // b on ints (floor division); the caller raises ZeroDivisionError for b = 0
FloorDiv(a, b) == IF b > 0 THEN a \div b ELSE (0 - a) \div (0 - b)

\* a / b (true division), exact on the model's inputs; b # 0
Abs(a) == IF a < 0 THEN 0 - a ELSE a

TrueDiv(a, b) == CHOOSE q \in (0 - Abs(a))..Abs(a) : q * b = a

Min(a, b) == IF a <= b THEN a ELSE b

RECURSIVE SumQuantity(_)
SumQuantity(s) == IF s = <<>> THEN 0 ELSE s[1].quantity + SumQuantity(Tail(s))

\* --------------------------------------------------------- place_market_order
OrderResult(order_id, symbol, side, order_type, quantity, price, status, error_message) ==
    [order_id |-> order_id, symbol |-> symbol, side |-> side, order_type |-> order_type,
     quantity |-> quantity, price |-> price, status |-> status,
     error_message |-> error_message]

\* the OrderResult place_market_order returns when the exchange call, the
\* seq-th request of `origin`, answers `response`
place_market_order(symbol, side, quantity, origin, seq, response) ==
    IF response \notin {"BinanceOrderException", "Exception"}
    THEN OrderResult(OrderIdStr(origin, seq), symbol, side, "MARKET", quantity, None,
                     response, None)
    ELSE OrderResult("", symbol, side, "MARKET", quantity, None, "FAILED",
                     Some(ErrorText(response)))

\* ------------------------------------------------------------ start_twap_order
TwapId(symbol, t) == <<"twap", symbol, t>>

NewThread(twap_id) ==
    [pc |-> "fetch", twap_id |-> twap_id, ref |-> 0, total_intervals |-> 0,
     quantity_per_interval |-> 0, i |-> 0, order_quantity |-> 0, loaded |-> 0,
     error |-> ""]

start_twap_order(symbol, side, total_quantity, duration_minutes, interval_seconds) ==
    /\ Len(twap_heap) < MaxStarts
    /\ LET twap_id == TwapId(symbol, now)
           k == Len(twap_heap) + 1
       IN /\ twap_heap' = Append(twap_heap,
                [symbol |-> symbol, side |-> side, total_quantity |-> total_quantity,
                 remaining_quantity |-> total_quantity,
                 duration_minutes |-> duration_minutes,
                 interval_seconds |-> interval_seconds,
                 orders |-> <<>>, active |-> TRUE])
          /\ twap_orders' = [id \in DOMAIN twap_orders \cup {twap_id} |->
                                IF id = twap_id THEN k ELSE twap_orders[id]]
          /\ threads' = Append(threads, NewThread(twap_id))
          /\ late_results' = Append(late_results, 0)
    /\ UNCHANGED <<now, exchange, cancelled, gridVars, orderVars>>

\* --------------------------------------------------------------- _execute_twap
Crash(t, error) == threads' = [threads EXCEPT ![t].pc = "crashed", ![t].error = error]

\* lines 232-235: look the entry up, compute the slice count and the slice size;
\* line 234 raises ZeroDivisionError for interval_seconds = 0, line 235 for a
\* slice count of 0
execute_twap_fetch(t) ==
    /\ threads[t].pc = "fetch"
    /\ LET ref == twap_orders[threads[t].twap_id]
           twap_order == twap_heap[ref]
       IN IF twap_order.interval_seconds = 0
          THEN threads' = [threads EXCEPT ![t].pc = "crashed", ![t].ref = ref,
                                          ![t].error = "ZeroDivisionError"]
          ELSE LET total_intervals == FloorDiv(twap_order.duration_minutes * 60,
                                               twap_order.interval_seconds)
               IN IF total_intervals = 0
                  THEN threads' = [threads EXCEPT ![t].pc = "crashed", ![t].ref = ref,
                                                  ![t].error = "ZeroDivisionError"]
                  ELSE threads' = [threads EXCEPT
                            ![t].pc = "check", ![t].ref = ref,
                            ![t].total_intervals = total_intervals,
                            ![t].quantity_per_interval =
                                TrueDiv(twap_order.total_quantity, total_intervals)]
    /\ UNCHANGED <<now, exchange, twap_orders, twap_heap, cancelled, late_results, gridVars, orderVars>>

\* lines 237-242: the head of one iteration
execute_twap_check(t) ==
    /\ threads[t].pc = "check"
    /\ LET twap_order == twap_heap[threads[t].ref]
       IN IF /\ threads[t].i < threads[t].total_intervals
             /\ twap_order.active
             /\ ~(twap_order.remaining_quantity <= 0)
          THEN threads' = [threads EXCEPT ![t].pc = "submit"]
          ELSE threads' = [threads EXCEPT ![t].pc = "finish"]
    /\ UNCHANGED <<now, exchange, twap_orders, twap_heap, cancelled, late_results, gridVars, orderVars>>

\* lines 244-246: the slice size is read and the request sent to the exchange
execute_twap_submit(t) ==
    /\ threads[t].pc = "submit"
    /\ LET ref == threads[t].ref
           twap_order == twap_heap[ref]
           order_quantity == Min(threads[t].quantity_per_interval,
                                 twap_order.remaining_quantity)
       IN /\ threads' = [threads EXCEPT ![t].pc = "inflight",
                                        ![t].order_quantity = order_quantity]
          /\ exchange' = exchange \cup
                {[origin |-> t, seq |-> threads[t].i + 1, entry |-> ref,
                  symbol |-> twap_order.symbol, side |-> twap_order.side,
                  type |-> "MARKET", quantity |-> order_quantity, price |-> None]}
    /\ UNCHANGED <<now, twap_orders, twap_heap, cancelled, late_results, gridVars, orderVars>>

\* lines 246-252: place_market_order returns and its result is appended
execute_twap_append(t, response) ==
    /\ threads[t].pc = "inflight"
    /\ LET ref == threads[t].ref
           twap_order == twap_heap[ref]
           result == place_market_order(twap_order.symbol, twap_order.side,
                                        threads[t].order_quantity, t,
                                        threads[t].i + 1, response)
       IN /\ twap_heap' = [twap_heap EXCEPT ![ref].orders = Append(@, result)]
          /\ late_results' = [late_results EXCEPT
                ![ref] = IF ref \in cancelled THEN @ + 1 ELSE @]
    /\ threads' = [threads EXCEPT ![t].pc = "load"]
    /\ UNCHANGED <<now, exchange, twap_orders, cancelled, gridVars, orderVars>>

\* line 253, the read of twap_order['remaining_quantity'] -= order_quantity
execute_twap_load(t) ==
    /\ threads[t].pc = "load"
    /\ threads' = [threads EXCEPT ![t].pc = "store",
                      ![t].loaded = twap_heap[threads[t].ref].remaining_quantity]
    /\ UNCHANGED <<now, exchange, twap_orders, twap_heap, cancelled, late_results, gridVars, orderVars>>

\* a faulty accounting, for comparison: the write is skipped when the slice
\* just recorded is FAILED
execute_twap_store_if_placed(t) ==
    /\ threads[t].pc = "store"
    /\ LET orders == twap_heap[threads[t].ref].orders
       IN twap_heap' = [twap_heap EXCEPT ![threads[t].ref].remaining_quantity =
                          IF orders[Len(orders)].status = "FAILED"
                          THEN @
                          ELSE threads[t].loaded - threads[t].order_quantity]
    /\ threads' = [threads EXCEPT ![t].pc = "sleep", ![t].loaded = 0]
    /\ UNCHANGED <<now, exchange, twap_orders, cancelled, late_results, gridVars, orderVars>>

\* line 253, the write
execute_twap_store(t) ==
    /\ threads[t].pc = "store"
    /\ twap_heap' = [twap_heap EXCEPT ![threads[t].ref].remaining_quantity =
                        threads[t].loaded - threads[t].order_quantity]
    /\ threads' = [threads EXCEPT ![t].pc = "sleep", ![t].loaded = 0]
    /\ UNCHANGED <<now, exchange, twap_orders, cancelled, late_results, gridVars, orderVars>>

\* line 257: time.sleep raises ValueError for a negative length
execute_twap_sleep(t) ==
    /\ threads[t].pc = "sleep"
    /\ IF twap_heap[threads[t].ref].interval_seconds < 0
       THEN Crash(t, "ValueError")
       ELSE threads' = [threads EXCEPT ![t].pc = "check", ![t].i = @ + 1,
                                       ![t].order_quantity = 0]
    /\ UNCHANGED <<now, exchange, twap_orders, twap_heap, cancelled, late_results, gridVars, orderVars>>

\* line 259
execute_twap_finish(t) ==
    /\ threads[t].pc = "finish"
    /\ twap_heap' = [twap_heap EXCEPT ![threads[t].ref].active = FALSE]
    /\ threads' = [threads EXCEPT ![t].pc = "done"]
    /\ UNCHANGED <<now, exchange, twap_orders, cancelled, late_results, gridVars, orderVars>>

\* ---------------------------------------------------------------- environment
\* cancellation from outside the task: the caller clears the active flag of the
\* entry registered under an identifier
cancel_strategy(twap_id) ==
    /\ twap_id \in DOMAIN twap_orders
    /\ twap_heap[twap_orders[twap_id]].active
    /\ twap_heap' = [twap_heap EXCEPT ![twap_orders[twap_id]].active = FALSE]
    /\ cancelled' = cancelled \cup {twap_orders[twap_id]}
    /\ UNCHANGED <<now, exchange, twap_orders, threads, late_results, gridVars, orderVars>>

\* int(time.time()) advances; only a start reads it
Tick ==
    /\ now < MaxTime
    /\ Len(twap_heap) < MaxStarts
    /\ Len(grid_heap) = 0
    /\ now' = now + 1
    /\ UNCHANGED <<exchange, twapVars, gridVars, orderVars>>

\* ---------------------------------------------------------- place_limit_order
place_limit_order(symbol, side, quantity, price, origin, seq, response) ==
    IF response \notin {"BinanceOrderException", "Exception"}
    THEN OrderResult(OrderIdStr(origin, seq), symbol, side, "LIMIT", quantity, Some(price),
                     response, None)
    ELSE OrderResult("", symbol, side, "LIMIT", quantity, Some(price), "FAILED",
                     Some(ErrorText(response)))

\* ---------------------------------------------------------- get_current_price
\* a faulty fallback, for comparison: a failed read answers a price inside the
\* band instead of 0
get_current_price_guess(ticker) == IF ticker = None THEN 20 ELSE ticker[1]

\* client.py lines 33-39: 0.0 when the read raises
get_current_price(ticker) == IF ticker = None THEN 0 ELSE ticker[1]

\* -------------------------------------------------------- start_grid_strategy
GridId(symbol, t) == <<"grid", symbol, t>>

\* lines 272-273: the prices of levels i = 0 .. grid_levels - 1
LevelPrices(lower_price, price_step, grid_levels) ==
    [j \in 1..grid_levels |-> lower_price + (j - 1) * price_step]

\* a faulty classification, for comparison: a level at the market price is
\* taken for a buy level as well
BuyLevelsAtOrBelow(prices, current_price) ==
    LET AtOrBelow(p) == p <= current_price IN SelectSeq(prices, AtOrBelow)

\* lines 275-278
BuyLevels(prices, current_price) ==
    LET Below(p) == p < current_price IN SelectSeq(prices, Below)

SellLevels(prices, current_price) ==
    LET Below(p) == p < current_price IN SelectSeq(prices, LAMBDA p : ~Below(p))

\* where _place_grid_orders stands once it has dealt with k levels of a phase
GridPosition(grid_order, pc, k) ==
    IF pc = "place_buy" /\ k >= Len(grid_order.buy_levels)
    THEN IF Len(grid_order.sell_levels) = 0 THEN <<"return", 0>> ELSE <<"place_sell", 0>>
    ELSE IF pc = "place_sell" /\ k >= Len(grid_order.sell_levels)
         THEN <<"return", 0>>
         ELSE <<pc, k>>

\* a faulty start, for comparison: a new grid switches the earlier ones off
NewGridDictOnly(heap, grid_order) ==
    Append([j \in DOMAIN heap |-> [heap[j] EXCEPT !.active = FALSE]], grid_order)

\* lines 280-290: the dict literal is a new object; no existing dict is touched
NewGridDict(heap, grid_order) == Append(heap, grid_order)

\* lines 264-290; line 266 raises ZeroDivisionError for grid_levels = 1
start_grid_strategy(symbol, lower_price, upper_price, grid_levels, quantity_per_level, ticker) ==
    /\ main.pc = "idle"
    /\ Len(grid_heap) < MaxGrids
    /\ IF grid_levels - 1 = 0
       THEN /\ main' = [main EXCEPT !.raised = "ZeroDivisionError"]
            /\ UNCHANGED <<grid_orders, grid_heap, price_reads, ticker_reads>>
       ELSE LET grid_id == GridId(symbol, now)
                g == Len(grid_heap) + 1
                price_step == TrueDiv(upper_price - lower_price, grid_levels - 1)
                current_price == get_current_price(ticker)
                prices == LevelPrices(lower_price, price_step, grid_levels)
                grid_order ==
                    [symbol |-> symbol, lower_price |-> lower_price,
                     upper_price |-> upper_price, grid_levels |-> grid_levels,
                     quantity_per_level |-> quantity_per_level,
                     buy_levels |-> BuyLevels(prices, current_price),
                     sell_levels |-> SellLevels(prices, current_price),
                     active_orders |-> <<>>, active |-> TRUE]
                at == GridPosition(grid_order, "place_buy", 0)
            IN /\ grid_heap' = NewGridDict(grid_heap, grid_order)
               /\ grid_orders' = [id \in DOMAIN grid_orders \cup {grid_id} |->
                                     IF id = grid_id THEN g ELSE grid_orders[id]]
               /\ main' = [pc |-> at[1], grid |-> g, k |-> at[2], raised |-> ""]
               /\ price_reads' = Append(price_reads, current_price)
               /\ ticker_reads' = Append(ticker_reads, ticker)
    /\ UNCHANGED <<now, exchange, twapVars, orderVars>>

\* a faulty bookkeeping, for comparison: every result is kept
KeepAlways(orders, result) == Append(orders, result)

\* lines 307-308 and 317-318
KeepIfPlaced(orders, result) ==
    IF result.status # "FAILED" THEN Append(orders, result) ELSE orders

\* lines 300-318: one iteration of _place_grid_orders, the exchange answering
\* `response`; the call is synchronous, so the exchange's log keeps the status
\* of the result with the request. The current grid's dict is looked up by identifier (line 298);
\* the calling thread registered it in the same call, so it is the newest one.
place_grid_order(response) ==
    /\ main.pc \in {"place_buy", "place_sell"}
    /\ LET g == main.grid
           grid_order == grid_heap[g]
           side == IF main.pc = "place_buy" THEN "BUY" ELSE "SELL"
           price == IF main.pc = "place_buy" THEN grid_order.buy_levels[main.k + 1]
                                             ELSE grid_order.sell_levels[main.k + 1]
           seq == Cardinality({r \in exchange : r.origin = g}) + 1
           result == place_limit_order(grid_order.symbol, side,
                                       grid_order.quantity_per_level, price, g, seq,
                                       response)
           at == GridPosition(grid_order, main.pc, main.k + 1)
       IN /\ exchange' = exchange \cup
                {[origin |-> g, seq |-> seq, entry |-> g, symbol |-> grid_order.symbol,
                  side |-> side, type |-> "LIMIT",
                  quantity |-> grid_order.quantity_per_level, price |-> Some(price),
                  status |-> result.status]}
          /\ grid_heap' = [grid_heap EXCEPT ![g].active_orders = KeepIfPlaced(@, result)]
          /\ main' = [main EXCEPT !.pc = at[1], !.k = at[2]]
    /\ UNCHANGED <<now, grid_orders, price_reads, ticker_reads, twapVars, orderVars>>

\* lines 294-295
start_grid_return ==
    /\ main.pc = "return"
    /\ main' = [main EXCEPT !.pc = "idle", !.k = 0]
    /\ UNCHANGED <<now, exchange, grid_orders, grid_heap, price_reads, ticker_reads, twapVars, orderVars>>

\* int(time.time()) advances between two calls of start_grid_strategy
GridTick ==
    /\ now < MaxTime
    /\ Len(grid_heap) < MaxGrids
    /\ main.pc = "idle"
    /\ now' = now + 1
    /\ UNCHANGED <<exchange, twapVars, gridVars, orderVars>>

\* ------------------------------------------------------ primitive operations
\* a faulty failure result, for comparison: the handler forgets the message
place_stop_limit_order_silent(symbol, side, quantity, stop_price, limit_price, origin, seq, response) ==
    IF response \notin {"BinanceOrderException", "Exception"}
    THEN OrderResult(OrderIdStr(origin, seq), symbol, side, "STOP_MARKET", quantity,
                     Some(stop_price), response, None)
    ELSE OrderResult("", symbol, side, "STOP_MARKET", quantity, Some(stop_price),
                     "FAILED", None)

\* lines 136-175: the OrderResult place_stop_limit_order returns; the request
\* is a STOP_MARKET at stop_price, limit_price is only logged
place_stop_limit_order(symbol, side, quantity, stop_price, limit_price, origin, seq, response) ==
    IF response \notin {"BinanceOrderException", "Exception"}
    THEN OrderResult(OrderIdStr(origin, seq), symbol, side, "STOP_MARKET", quantity,
                     Some(stop_price), response, None)
    ELSE OrderResult("", symbol, side, "STOP_MARKET", quantity, Some(stop_price),
                     "FAILED", Some(ErrorText(response)))

\* the request each operation hands to client.futures_create_order
MarketRequest(origin, symbol, side, quantity) ==
    [origin |-> origin, seq |-> 1, entry |-> 0, symbol |-> symbol, side |-> side,
     type |-> "MARKET", quantity |-> quantity, price |-> None]

LimitRequest(origin, symbol, side, quantity, price) ==
    [origin |-> origin, seq |-> 1, entry |-> 0, symbol |-> symbol, side |-> side,
     type |-> "LIMIT", quantity |-> quantity, price |-> Some(price)]

StopRequest(origin, symbol, side, quantity, stop_price) ==
    [origin |-> origin, seq |-> 1, entry |-> 0, symbol |-> symbol, side |-> side,
     type |-> "STOP_MARKET", quantity |-> quantity, price |-> Some(stop_price)]

\* history entry of one call: what was called, what the exchange answered,
\* what the call returned
Call(op, response, result) == [op |-> op, response |-> response, result |-> result]

\* main.py line 46
MarketOrder(symbol, side, quantity, response) ==
    /\ Len(calls) < MaxCalls
    /\ LET origin == Len(calls) + 1
           result == place_market_order(symbol, side, quantity, origin, 1, response)
       IN /\ exchange' = exchange \cup {MarketRequest(origin, symbol, side, quantity)}
          /\ calls' = Append(calls, Call("place_market_order", response, result))
    /\ UNCHANGED <<now, active_orders, twapVars, gridVars>>

\* main.py line 60
LimitOrder(symbol, side, quantity, price, response) ==
    /\ Len(calls) < MaxCalls
    /\ LET origin == Len(calls) + 1
           result == place_limit_order(symbol, side, quantity, price, origin, 1, response)
       IN /\ exchange' = exchange \cup {LimitRequest(origin, symbol, side, quantity, price)}
          /\ calls' = Append(calls, Call("place_limit_order", response, result))
    /\ UNCHANGED <<now, active_orders, twapVars, gridVars>>

\* main.py line 80
StopLimitOrder(symbol, side, quantity, stop_price, limit_price, response) ==
    /\ Len(calls) < MaxCalls
    /\ LET origin == Len(calls) + 1
           result == place_stop_limit_order(symbol, side, quantity, stop_price,
                                            limit_price, origin, 1, response)
       IN /\ exchange' = exchange \cup
                {StopRequest(origin, symbol, side, quantity, stop_price)}
          /\ calls' = Append(calls, Call("place_stop_limit_order", response, result))
    /\ UNCHANGED <<now, active_orders, twapVars, gridVars>>

\* a faulty bookkeeping, for comparison: the stop leg is stored whatever the
\* limit order's status
StoreStopLegAlways(orders, limit_order, stop_price, stop_limit_price) ==
    [id \in DOMAIN orders \cup {limit_order.order_id} |->
        IF id = limit_order.order_id
        THEN [type |-> "OCO", stop_price |-> stop_price,
              stop_limit_price |-> stop_limit_price, symbol |-> limit_order.symbol,
              side |-> limit_order.side, quantity |-> limit_order.quantity]
        ELSE orders[id]]

\* lines 184-192: self.active_orders after place_oco_order got limit_order
StoreStopLeg(orders, limit_order, stop_price, stop_limit_price) ==
    IF limit_order.status # "FAILED"
    THEN [id \in DOMAIN orders \cup {limit_order.order_id} |->
            IF id = limit_order.order_id
            THEN [type |-> "OCO", stop_price |-> stop_price,
                  stop_limit_price |-> stop_limit_price, symbol |-> limit_order.symbol,
                  side |-> limit_order.side, quantity |-> limit_order.quantity]
            ELSE orders[id]]
    ELSE orders

\* lines 177-208; place_limit_order never raises and the dict store cannot
\* fail, so the handler of line 196 is never entered
place_oco_order(symbol, side, quantity, price, stop_price, stop_limit_price, response) ==
    /\ Len(calls) < MaxCalls
    /\ LET origin == Len(calls) + 1
           limit_order == place_limit_order(symbol, side, quantity, price, origin, 1,
                                            response)
       IN /\ exchange' = exchange \cup {LimitRequest(origin, symbol, side, quantity, price)}
          /\ active_orders' = StoreStopLeg(active_orders, limit_order, stop_price,
                                           stop_limit_price)
          /\ calls' = Append(calls, Call("place_oco_order", response, limit_order))
    /\ UNCHANGED <<now, twapVars, gridVars>>

\* ------------------------------------------------------------- specification
Init ==
    /\ now = 0
    /\ twap_orders = <<>>
    /\ twap_heap = <<>>
    /\ threads = <<>>
    /\ exchange = {}
    /\ cancelled = {}
    /\ late_results = <<>>
    /\ grid_orders = <<>>
    /\ grid_heap = <<>>
    /\ main = [pc |-> "idle", grid |-> 0, k |-> 0, raised |-> ""]
    /\ price_reads = <<>>
    /\ ticker_reads = <<>>
    /\ active_orders = <<>>
    /\ calls = <<>>

StartTwap ==
    \E symbol \in Symbols, side \in Sides, total_quantity \in TotalQuantities,
       duration_minutes \in DurationMinutes, interval_seconds \in IntervalSeconds :
        start_twap_order(symbol, side, total_quantity, duration_minutes, interval_seconds)

ThreadIds == 1..Len(threads)

Fetch == \E t \in ThreadIds : execute_twap_fetch(t)

Check == \E t \in ThreadIds : execute_twap_check(t)

Submit == \E t \in ThreadIds : execute_twap_submit(t)

AppendResult == \E t \in ThreadIds, response \in Responses : execute_twap_append(t, response)

Load == \E t \in ThreadIds : execute_twap_load(t)

Store == \E t \in ThreadIds : execute_twap_store(t)

Sleep == \E t \in ThreadIds : execute_twap_sleep(t)

Finish == \E t \in ThreadIds : execute_twap_finish(t)

Cancel == \E twap_id \in DOMAIN twap_orders : cancel_strategy(twap_id)

Next ==
    \/ StartTwap
    \/ Fetch
    \/ Check
    \/ Submit
    \/ AppendResult
    \/ Load
    \/ Store
    \/ Sleep
    \/ Finish
    \/ Cancel
    \/ Tick

Spec == Init /\ [][Next]_vars

StartGrid ==
    \E symbol \in GridSymbols, lower_price \in GridPrices, upper_price \in GridPrices,
       grid_levels \in GridLevels, quantity_per_level \in LevelQuantities,
       ticker \in Tickers :
        start_grid_strategy(symbol, lower_price, upper_price, grid_levels,
                            quantity_per_level, ticker)

PlaceGrid == \E response \in Responses : place_grid_order(response)

GridNext == StartGrid \/ PlaceGrid \/ start_grid_return \/ GridTick

GridSpec == Init /\ [][GridNext]_vars

\* the primitive operations, called one after the other from the page
PlaceMarket ==
    \E symbol \in Symbols, side \in OrderSides, quantity \in OrderQuantities,
       response \in Responses :
        MarketOrder(symbol, side, quantity, response)

PlaceLimit ==
    \E symbol \in Symbols, side \in OrderSides, quantity \in OrderQuantities,
       price \in LimitPrices, response \in Responses :
        LimitOrder(symbol, side, quantity, price, response)

PlaceStopLimit ==
    \E symbol \in Symbols, side \in OrderSides, quantity \in OrderQuantities,
       stop_price \in StopPrices, limit_price \in StopLimitPrices,
       response \in Responses :
        StopLimitOrder(symbol, side, quantity, stop_price, limit_price, response)

PlaceOco ==
    \E symbol \in Symbols, side \in OrderSides, quantity \in OrderQuantities,
       price \in LimitPrices, stop_price \in StopPrices,
       stop_limit_price \in StopLimitPrices, response \in Responses :
        place_oco_order(symbol, side, quantity, price, stop_price, stop_limit_price,
                        response)

OrderNext == PlaceMarket \/ PlaceLimit \/ PlaceStopLimit \/ PlaceOco

OrderSpec == Init /\ [][OrderNext]_vars

\* ------------------------------------------------------------------- claims
Entries == 1..Len(twap_heap)

\* the spec's validation of start_twap's parameters
ValidTwap(twap_order) ==
    /\ twap_order.duration_minutes > 0
    /\ twap_order.interval_seconds > 0
    /\ twap_order.total_quantity > 0

\* slice_count = floor(duration_seconds / interval), for interval # 0
SliceCount(twap_order) ==
    FloorDiv(twap_order.duration_minutes * 60, twap_order.interval_seconds)

\* the thread start_twap_order started for the k-th strategy has ended
Terminated(k) == threads[k].pc \in {"done", "crashed"}

\* the threads that are between sending a slice of entry e and having applied
\* its result and decrement
Submitting(e) ==
    {t \in ThreadIds : threads[t].ref = e /\ threads[t].pc \in {"inflight", "load", "store"}}

\* C1: in every state a reader can observe, the quantities of the results in a
\* TWAP strategy's history plus its remaining_quantity equal its total_quantity.
C1_QuantityConserved ==
    \A e \in Entries :
        SumQuantity(twap_heap[e].orders) + twap_heap[e].remaining_quantity
            = twap_heap[e].total_quantity

\* C2: a TWAP strategy whose slice count is 0 completes at once: its task does
\* not fail, nothing is submitted or recorded for it, and it ends inactive.
C2_ZeroSlicesCompleteInactive ==
    \A k \in Entries :
        (twap_heap[k].interval_seconds # 0 /\ SliceCount(twap_heap[k]) = 0) =>
            /\ threads[k].pc # "crashed"
            /\ twap_heap[k].orders = <<>>
            /\ \A r \in exchange : r.entry # k
            /\ Terminated(k) => ~twap_heap[k].active

\* C3: once a TWAP strategy's flag was cleared from outside, at most one
\* submission (the one in flight) still completes for it, and none after that.
C3_AtMostOneResultAfterCancel ==
    \A e \in Entries : late_results[e] <= 1

\* C4: start_twap with duration <= 0, interval <= 0 or total_quantity <= 0 has
\* no effect: no such strategy is registered, no task started, nothing submitted.
C4_InvalidTwapHasNoEffect ==
    \A k \in Entries : ValidTwap(twap_heap[k])

\* the spec's validation of start_grid's parameters
ValidGrid(grid_order) ==
    /\ grid_order.grid_levels >= 2
    /\ grid_order.lower_price < grid_order.upper_price
    /\ grid_order.quantity_per_level > 0

\* C5: start_grid with levels < 2, lower_price >= upper_price or
\* quantity_per_level <= 0 fails with a ValidationError and has no effect: no
\* such grid is registered and no limit order is submitted for one.
C5_InvalidGridHasNoEffect ==
    /\ main.raised \in {"", "ValidationError"}
    /\ \A g \in 1..Len(grid_heap) : ValidGrid(grid_heap[g])

\* C6: two starts never return the same identifier, so every strategy stays
\* registered under the identifier its start returned.
C6_StrategyStaysRegistered ==
    \A k \in Entries : twap_orders[threads[k].twap_id] = k

\* C7: at most one thread at a time is between sending a slice of one TWAP
\* entry and having applied that slice's result and decrement.
C7_NoOverlappingSubmissions ==
    \A e \in Entries : Cardinality(Submitting(e)) <= 1

\* C8: an uncancelled TWAP strategy with slice_count >= 1 submits slices of
\* total_quantity / slice_count each, remaining_quantity going down by that
\* much per slice, and has submitted exactly slice_count of them, with
\* remaining_quantity 0, when its task ends.
C8_ExactlySliceCountSlices ==
    \A k \in Entries :
        LET twap_order == twap_heap[k]
            n == SliceCount(twap_order)
        IN (ValidTwap(twap_order) /\ k \notin cancelled /\ n >= 1) =>
            /\ \A j \in 1..Len(twap_order.orders) :
                   /\ twap_order.orders[j].order_type = "MARKET"
                   /\ twap_order.orders[j].quantity * n = twap_order.total_quantity
            /\ Submitting(k) = {} =>
                   twap_order.remaining_quantity * n
                       = twap_order.total_quantity * (n - Len(twap_order.orders))
            /\ Terminated(k) =>
                   /\ Len(twap_order.orders) = n
                   /\ twap_order.remaining_quantity = 0

\* C9: a FAILED slice is recorded and neither ends the strategy nor is retried:
\* an uncancelled strategy whose latest result is FAILED with slices left is
\* still active, and no strategy is sent more than slice_count requests.
C9_FailedSliceNotRetried ==
    \A k \in Entries :
        LET twap_order == twap_heap[k]
            n == SliceCount(twap_order)
            done == Len(twap_order.orders)
        IN ValidTwap(twap_order) =>
            /\ Cardinality({r \in exchange : r.entry = k}) <= n
            /\ done <= n
            /\ (/\ k \notin cancelled
                /\ done >= 1
                /\ done < n
                /\ twap_order.orders[done].status = "FAILED") => twap_order.active

\* C10: the task of every started TWAP strategy ends with the strategy inactive.
C10_EndsInactive ==
    \A k \in Entries : Terminated(k) => ~twap_heap[k].active

\* C11: every registered TWAP strategy has 0 <= remaining_quantity <=
\* total_quantity in every state.
C11_RemainingWithinBounds ==
    \A id \in DOMAIN twap_orders :
        LET twap_order == twap_heap[twap_orders[id]]
        IN /\ 0 <= twap_order.remaining_quantity
           /\ twap_order.remaining_quantity <= twap_order.total_quantity

\* ------------------------------------------------------------ grid claims
Grids == 1..Len(grid_heap)

Range(s) == {s[j] : j \in 1..Len(s)}

Occurrences(s, p) == Cardinality({j \in 1..Len(s) : s[j] = p})

\* the grid_levels prices lower_price + i * price_step of a registered grid
GeneratedLevels(grid_order) ==
    LevelPrices(grid_order.lower_price,
                TrueDiv(grid_order.upper_price - grid_order.lower_price,
                        grid_order.grid_levels - 1),
                grid_order.grid_levels)

\* C12: every generated level of a grid is classified exactly once: a level
\* strictly below the price read at creation is a buy level, a level at or
\* above it is a sell level; the two lists share no level and together hold
\* exactly the generated levels.
C12_EachLevelClassifiedOnce ==
    \A g \in Grids :
        LET grid_order == grid_heap[g]
            current_price == price_reads[g]
            levels == GeneratedLevels(grid_order)
        IN /\ \A p \in Range(grid_order.buy_levels) : p < current_price
           /\ \A p \in Range(grid_order.sell_levels) : p >= current_price
           /\ Range(grid_order.buy_levels) \cap Range(grid_order.sell_levels) = {}
           /\ \A p \in Range(levels) \cup Range(grid_order.buy_levels)
                                     \cup Range(grid_order.sell_levels) :
                  Occurrences(grid_order.buy_levels, p)
                    + Occurrences(grid_order.sell_levels, p) = Occurrences(levels, p)

\* a band 18..22 of 3 levels created at price 20: 18 buys, 20 and 22 sell
C12_LevelAtPriceSells ==
    \E g \in Grids :
        /\ grid_heap[g].lower_price = 18 /\ grid_heap[g].upper_price = 22
        /\ grid_heap[g].grid_levels = 3 /\ price_reads[g] = 20
        /\ grid_heap[g].buy_levels = <<18>>
        /\ grid_heap[g].sell_levels = <<20, 22>>

\* C13: for every registered grid the level prices, buy levels followed by
\* sell levels, all lie in [lower_price, upper_price], start at lower_price,
\* end at upper_price and rise strictly by the constant step
\* (upper_price - lower_price) / (grid_levels - 1).
C13_LevelsSpanBand ==
    \A g \in Grids :
        LET grid_order == grid_heap[g]
            levels == grid_order.buy_levels \o grid_order.sell_levels
            n == Len(levels)
        IN /\ n = grid_order.grid_levels
           /\ \A p \in Range(levels) :
                  grid_order.lower_price <= p /\ p <= grid_order.upper_price
           /\ n >= 1 => /\ levels[1] = grid_order.lower_price
                        /\ levels[n] = grid_order.upper_price
           /\ \A j \in 1..(n - 1) :
                  /\ levels[j] < levels[j + 1]
                  /\ (levels[j + 1] - levels[j]) * (grid_order.grid_levels - 1)
                        = grid_order.upper_price - grid_order.lower_price

\* the requests the exchange got for grid g, in the order it got them
GridRequests(g) ==
    [j \in 1..Cardinality({r \in exchange : r.origin = g}) |->
        CHOOSE r \in exchange : r.origin = g /\ r.seq = j]

\* start_grid_strategy is still placing the orders of grid g
Placing(g) == main.grid = g /\ main.pc \in {"place_buy", "place_sell"}

\* C14: start_grid submits one LIMIT order per level before it returns: the
\* j-th request is for the j-th level of buy levels followed by sell levels,
\* prices ascending within each side, whatever the earlier placements
\* answered; once placing is over there is exactly one request per level.
C14_OneOrderPerLevelInOrder ==
    \A g \in Grids :
        LET grid_order == grid_heap[g]
            levels == grid_order.buy_levels \o grid_order.sell_levels
            requests == GridRequests(g)
        IN /\ Len(requests) <= Len(levels)
           /\ ~Placing(g) => Len(requests) = Len(levels)
           /\ \A j \in 1..Len(requests) :
                  /\ requests[j].type = "LIMIT"
                  /\ requests[j].price = Some(levels[j])
                  /\ requests[j].quantity = grid_order.quantity_per_level
                  /\ requests[j].side =
                        IF j <= Len(grid_order.buy_levels) THEN "BUY" ELSE "SELL"
           /\ \A j \in 1..(Len(requests) - 1) :
                  requests[j].side = requests[j + 1].side
                      => requests[j].price[1] <= requests[j + 1].price[1]

\* the requests of grid g that the exchange did not refuse, in order
PlacedRequests(g) ==
    LET Placed(r) == r.status # "FAILED" IN SelectSeq(GridRequests(g), Placed)

\* C15 as stated: once start_grid has returned, the grid's active_orders
\* holds one entry per level, a FAILED entry for each level whose placement
\* failed.
C15_FailedPlacementRecorded ==
    \A g \in Grids :
        ~Placing(g) =>
            /\ Len(grid_heap[g].active_orders) = Len(GridRequests(g))
            /\ \A j \in 1..Len(GridRequests(g)) :
                   grid_heap[g].active_orders[j].status = GridRequests(g)[j].status

\* C15, amended: a failed placement is not stored in the grid. At any time
\* the grid's active_orders holds, in placement order, exactly one entry for
\* each request the exchange did not refuse, and no FAILED entry.
C15_OnlyPlacedOrdersRecorded ==
    \A g \in Grids :
        LET orders == grid_heap[g].active_orders
            placed == PlacedRequests(g)
        IN /\ Len(orders) = Len(placed)
           /\ \A j \in 1..Len(orders) :
                  /\ orders[j].status # "FAILED"
                  /\ orders[j].order_id = OrderIdStr(g, placed[j].seq)
                  /\ orders[j].side = placed[j].side
                  /\ orders[j].price = placed[j].price

\* start_grid has returned from a grid with a refused level and a placed one
C15_GridWithRefusedLevel ==
    \E g \in Grids :
        /\ ~Placing(g)
        /\ main.pc = "idle"
        /\ \E j \in 1..Len(GridRequests(g)) : GridRequests(g)[j].status = "FAILED"
        /\ Len(grid_heap[g].active_orders) >= 1

\* start_grid_strategy has returned the identifier of grid g
Returned(g) == g \in Grids /\ (main.grid # g \/ main.pc = "idle")

\* C18: a grid is placed once. After start_grid has returned, no further
\* order is submitted for that grid, and its levels, recorded orders and
\* active flag never change.
C18_GridPlacedOnce ==
    [][\A g \in Grids :
          Returned(g) =>
              /\ grid_heap'[g] = grid_heap[g]
              /\ {r \in exchange' : r.origin = g} = {r \in exchange : r.origin = g}]_vars

\* a second grid is being placed after the first, with orders, has returned
C18_LaterGridPlaced ==
    /\ Len(grid_heap) = 2
    /\ Returned(1)
    /\ Len(grid_heap[1].active_orders) >= 1
    /\ \E r \in exchange : r.origin = 2

\* ------------------------------------------------ primitive-operation claims
Raises == {"BinanceOrderException", "Exception"}

\* the requests the exchange got from the j-th call
CallRequests(j) == {r \in exchange : r.origin = j}

\* C16: every call of a primitive operation returns an OrderResult instead of
\* raising: each call made exactly one request and has a result; when the
\* exchange call raised, the result is FAILED with an empty order_id and an
\* error_message; when it answered, the order_id is not empty, the status is
\* the exchange's and there is no error_message. So error_message is set
\* exactly when order_id is empty.
C16_FailureIsAResult ==
    \A j \in 1..Len(calls) :
        LET result == calls[j].result IN
        /\ Cardinality(CallRequests(j)) = 1
        /\ calls[j].response \in Raises =>
              /\ result.status = "FAILED"
              /\ result.order_id = ""
              /\ result.error_message # None
        /\ calls[j].response \notin Raises =>
              /\ result.status = calls[j].response
              /\ result.order_id # ""
              /\ result.error_message = None
        /\ result.error_message # None <=> result.order_id = ""

\* a stop-limit call the exchange refused, then an OCO call it accepted
C16_RefusedThenAccepted ==
    /\ Len(calls) = 2
    /\ calls[1].op = "place_stop_limit_order" /\ calls[1].response \in Raises
    /\ calls[1].result.status = "FAILED"
    /\ calls[2].op = "place_oco_order" /\ calls[2].result.order_id # ""

\* the calls of place_oco_order whose limit order was not refused
StoredOco == {j \in 1..Len(calls) : /\ calls[j].op = "place_oco_order"
                                    /\ calls[j].result.status # "FAILED"}

\* C19: place_oco_order makes exactly one exchange request, the LIMIT leg,
\* and none for the stop leg; the stop leg's parameters are in active_orders
\* under the limit order's id exactly when the limit result is not FAILED,
\* and nothing else ever enters active_orders.
C19_OcoSubmitsLimitLegOnly ==
    /\ \A j \in 1..Len(calls) :
          calls[j].op = "place_oco_order" =>
              /\ Cardinality(CallRequests(j)) = 1
              /\ \A r \in CallRequests(j) :
                    /\ r.type = "LIMIT"
                    /\ r.price = calls[j].result.price
              /\ calls[j].result.order_type = "LIMIT"
    /\ DOMAIN active_orders = {calls[j].result.order_id : j \in StoredOco}
    /\ \A j \in StoredOco :
          LET stored == active_orders[calls[j].result.order_id] IN
          /\ stored.type = "OCO"
          /\ stored.stop_price \in StopPrices
          /\ stored.stop_limit_price \in StopLimitPrices
          /\ stored.symbol = calls[j].result.symbol
          /\ stored.side = calls[j].result.side
          /\ stored.quantity = calls[j].result.quantity

\* one OCO call whose limit leg was refused and one whose limit leg was taken
C19_OneRefusedOneStored ==
    /\ Len(calls) = 2
    /\ calls[1].op = "place_oco_order" /\ calls[1].result.status = "FAILED"
    /\ calls[2].op = "place_oco_order" /\ calls[2].result.status = "NEW"
    /\ DOMAIN active_orders = {calls[2].result.order_id}

\* ------------------------------------------------------ TWAP accounting claim
\* C20: a FAILED slice is accounted like a placed one. Whatever the status of
\* the result a task gets back, the task records it with the slice quantity,
\* goes on to line 253, reads remaining_quantity and writes it back lowered
\* by the slice quantity.
C20_FailedSliceIsAccounted ==
    [][\A t \in ThreadIds :
          LET e == threads[t].ref
              orders == twap_heap'[e].orders
          IN /\ (threads[t].pc = "inflight" /\ threads'[t].pc # "inflight") =>
                   /\ threads'[t].pc = "load"
                   /\ Len(orders) = Len(twap_heap[e].orders) + 1
                   /\ orders[Len(orders)].quantity = threads'[t].order_quantity
             /\ (threads[t].pc = "load" /\ threads'[t].pc # "load") =>
                   /\ threads'[t].pc = "store"
                   /\ threads'[t].loaded = twap_heap[e].remaining_quantity
                   /\ threads'[t].order_quantity = threads[t].order_quantity
             /\ (threads[t].pc = "store" /\ threads'[t].pc # "store") =>
                   twap_heap'[e].remaining_quantity
                       = threads[t].loaded - threads[t].order_quantity]_vars

\* a strategy that ended with remaining_quantity 0 and inactive although the
\* exchange refused every one of its slices
C20_CompleteWithOnlyFailures ==
    \E e \in Entries :
        /\ threads[e].ref = e /\ threads[e].pc = "done"
        /\ twap_heap[e].total_quantity > 0
        /\ twap_heap[e].remaining_quantity = 0
        /\ ~twap_heap[e].active
        /\ Len(twap_heap[e].orders) = SliceCount(twap_heap[e])
        /\ \A j \in 1..Len(twap_heap[e].orders) :
              /\ twap_heap[e].orders[j].status = "FAILED"
              /\ twap_heap[e].orders[j].quantity > 0

\* ----------------------------------------------------- independence claim
\* the requests task t has sent
SentBy(t) == {r \in exchange : r.origin = t}

\* C17: TWAP tasks are independent. While a task u stays inside a submission
\* call, any other task t whose strategy is valid and was not cancelled still
\* submits all slice_count slices of its strategy before it ends.
C17_TasksIndependent ==
    \A t \in ThreadIds : \A u \in ThreadIds \ {t} :
        (/\ threads[u].pc = "inflight"
         /\ Terminated(t)
         /\ ValidTwap(twap_heap[t])
         /\ t \notin cancelled /\ threads[t].ref \notin cancelled)
            => Cardinality(SentBy(t)) = SliceCount(twap_heap[t])

\* -------------------------------------------------------- failed price read
\* C21: when the price read of a grid's creation fails, get_current_price
\* answers 0 and start_grid goes on: the grid is created with price 0, every
\* level at or above 0 is a sell level, and when no level is negative
\* buy_levels is empty and, once placing is over, exactly one SELL limit
\* order has been submitted for every level.
C21_FailedReadSellsEveryLevel ==
    \A g \in Grids :
        ticker_reads[g] = None =>
            LET grid_order == grid_heap[g]
                levels == GeneratedLevels(grid_order)
                requests == GridRequests(g)
            IN /\ price_reads[g] = 0
               /\ \A p \in Range(levels) : p >= 0 => p \in Range(grid_order.sell_levels)
               /\ (\A p \in Range(levels) : p >= 0) =>
                     /\ grid_order.buy_levels = <<>>
                     /\ grid_order.sell_levels = levels
                     /\ \A j \in 1..Len(requests) :
                           /\ requests[j].side = "SELL"
                           /\ requests[j].type = "LIMIT"
                           /\ requests[j].price = Some(levels[j])
                     /\ ~Placing(g) => Len(requests) = Len(levels)

\* start_grid has returned from a band 18..22 of 3 levels whose price read
\* failed: three sell levels, three SELL requests
C21_FailedReadGridPlaced ==
    \E g \in Grids :
        /\ ticker_reads[g] = None
        /\ Returned(g)
        /\ grid_heap[g].buy_levels = <<>>
        /\ grid_heap[g].sell_levels = <<18, 20, 22>>
        /\ Len(GridRequests(g)) = 3
        /\ \A j \in 1..3 : GridRequests(g)[j].side = "SELL"

====
